---- MODULE Spec2Model ----
(***************************************************************************)
(* Ownership wrappers over the libusb C API (src/pc/protocols/             *)
(* wrap_libusb.hpp): call_log_throw, unique_resource_ptr, device_list,     *)
(* config_descriptor, device_handle and usb_device, modelled as state      *)
(* machines over a small native layer.                                     *)
(*                                                                         *)
(* Every action is one whole member function call.  The native calls it    *)
(* issued, in order and with their results, are left in `calls`, the log   *)
(* entries in `logs`, the exception that left the call (if any) in         *)
(* `raised` and the returned value in `ret`; `last` names the call.        *)
(***************************************************************************)
EXTENDS Integers, Sequences, FiniteSets, TLC

VARIABLES
    dh,        \* device_handle objects: [live, ptr, claimedInterfaces]
    natChan,   \* native layer, per channel: [st, claimed, closes, dev]
    callerHas, \* raw channels in the caller's hands (not owned by a wrapper)
    ud,        \* usb_device objects: [live, ptr]
    refcnt,    \* native layer: reference count of every device identity
    heldRefs,  \* references the caller holds after usb_device release()
    dl,        \* device_list objects: [live, countDevices, deviceList]
    natList,   \* native layer, per device array: [st, devs, frees]
    up,        \* plain unique_resource_ptr objects (usb_context, config_descriptor)
    natRes,    \* native layer, per plain raw resource: [st, disposes]
    resHas,    \* plain raw resources in the caller's hands
    calls,     \* native calls issued by the last operation
    logs,      \* log entries written by the last operation
    raised,    \* exception that left the last operation (NoError if none)
    ret,       \* value returned by the last operation
    last,      \* the last operation: [op, obj, arg, src]
    crashed,   \* the process died in a native call with undefined behaviour
    steps      \* operations performed so far

vars == <<dh, natChan, callerHas, ud, refcnt, heldRefs, dl, natList, up, natRes, resHas,
          calls, logs, raised, ret, last, crashed, steps>>

-----------------------------------------------------------------------------
(* Bounds                                                                  *)

NumHandleObjs == 2   \* device_handle objects
NumChannels   == 2   \* raw libusb_device_handle values
NumIfaces     == 2   \* interface numbers 1..NumIfaces
NumDevObjs    == 2   \* usb_device objects
NumDevices    == 1   \* raw libusb_device identities
NumListObjs   == 2   \* device_list objects
NumArrays     == 2   \* device arrays libusb_get_device_list can hand out
NumResObjs    == 2   \* plain unique_resource_ptr objects
NumRes        == 2   \* plain raw resources
BaseRef       == 1   \* reference count of a device before a wrapper touches it
MaxRc         == 2   \* largest non-negative native result drawn
MaxSteps      == 5   \* operations in one run
MaxOpen       == 1   \* channels open()ed from usb devices and not yet closed
MaxHeld       == 1   \* device references the caller holds after release()

NULL == 0            \* nullptr

HandleObjs == 1..NumHandleObjs
Channels   == 1..NumChannels
Interfaces == 1..NumIfaces
DevObjs    == 1..NumDevObjs
Devices    == 1..NumDevices
ListObjs   == 1..NumListObjs
Arrays     == 1..NumArrays
ResObjs    == 1..NumResObjs
Resources  == 1..NumRes

\* negative libusb result codes the native layer may return
ErrCodes == {-3, -5}

\* mvLog_t severities
LogLevels == {"MVLOG_DEBUG", "MVLOG_INFO", "MVLOG_WARN", "MVLOG_ERROR", "MVLOG_FATAL"}

-----------------------------------------------------------------------------
(* Errors and checked invocation                                           *)

\* libusb_strerror: the native code-to-string translator
libusb_strerror(c) ==
    CASE c = -3 -> "Access denied (insufficient permissions)"
      [] c = -5 -> "Entity not found"
      [] c = 0  -> "Success"
      [] OTHER  -> "Other error"

NoError == [code |-> 0, what |-> ""]

\* usb_error(int): std::system_error carrying the code and libusb_strerror(code)
usb_error(libusbErrorCode) ==
    [code |-> libusbErrorCode, what |-> libusb_strerror(libusbErrorCode)]

\* tag dispatch: usb_error for std::true_type, nothing for std::false_type
throw_conditional(errCode, Throw) ==
    IF Throw THEN usb_error(errCode) ELSE NoError

\* one native call record
Call(fn, h, a, rc) == [fn |-> fn, h |-> h, a |-> a, rc |-> rc, returned |-> TRUE]

\* a native call that never returned (undefined behaviour ended the process)
DeadCall(fn, h, a) == [fn |-> fn, h |-> h, a |-> a, rc |-> 0, returned |-> FALSE]

Quiet == [calls |-> <<>>, logs |-> <<>>, thrown |-> NoError, rc |-> 0]

\* mutant: a failing call is tried a second time
call_log_throw_retry(Loglevel, Throw, func, h, a, rcNum) ==
    [calls  |-> IF rcNum < 0 THEN <<Call(func, h, a, rcNum), Call(func, h, a, rcNum)>>
                ELSE <<Call(func, h, a, rcNum)>>,
     logs   |-> IF rcNum < 0
                THEN <<[lvl |-> Loglevel, fn |-> func, text |-> libusb_strerror(rcNum)]>>
                ELSE <<>>,
     thrown |-> IF rcNum < 0 THEN throw_conditional(rcNum, Throw) ELSE NoError,
     rc     |-> rcNum]

\* mutant: the failure is logged but never thrown
call_log_throw_silent(Loglevel, Throw, func, h, a, rcNum) ==
    [calls  |-> <<Call(func, h, a, rcNum)>>,
     logs   |-> IF rcNum < 0
                THEN <<[lvl |-> Loglevel, fn |-> func, text |-> libusb_strerror(rcNum)]>>
                ELSE <<>>,
     thrown |-> NoError,
     rc     |-> rcNum]

\* call_log_throw<Loglevel, Throw>(func_within, line, func, args...): rcNum is the
\* value func(args...) returned
call_log_throw(Loglevel, Throw, func, h, a, rcNum) ==
    [calls  |-> <<Call(func, h, a, rcNum)>>,
     logs   |-> IF rcNum < 0
                THEN <<[lvl |-> Loglevel, fn |-> func, text |-> libusb_strerror(rcNum)]>>
                ELSE <<>>,
     thrown |-> IF rcNum < 0 THEN throw_conditional(rcNum, Throw) ELSE NoError,
     rc     |-> rcNum]

\* CALL_LOG_ERROR_THROW(func, args...): the defaults MVLOG_ERROR, Throw = true
CALL_LOG_ERROR_THROW(func, h, a, rcNum) ==
    call_log_throw("MVLOG_ERROR", TRUE, func, h, a, rcNum)

-----------------------------------------------------------------------------
(* unique_resource_ptr<Resource, Dispose> = std::unique_ptr with the       *)
(* null-checking deleter                                                   *)

\* unique_resource_deleter::operator()
unique_resource_deleter(Dispose, ptr) ==
    IF ptr # NULL THEN <<Call(Dispose, ptr, 0, 0)>> ELSE <<>>

\* mutant: reset() overwrites the pointer and never disposes of the old one
base_reset_leak(Dispose, old, p) == [ptr |-> p, calls |-> <<>>]

\* std::unique_ptr::reset(p): old = ptr; ptr = p; if (old) deleter(old)
base_reset(Dispose, old, p) ==
    [ptr |-> p, calls |-> IF old # NULL THEN unique_resource_deleter(Dispose, old) ELSE <<>>]

\* std::unique_ptr::~unique_ptr: if (ptr) deleter(ptr)
base_dtor(Dispose, old) ==
    IF old # NULL THEN unique_resource_deleter(Dispose, old) ELSE <<>>

\* mutant: release() hands the pointer out and keeps owning it
base_release_keep(old) == [ptr |-> old, ret |-> old]

\* std::unique_ptr::release(): returns ptr and stores nullptr
base_release(old) == [ptr |-> NULL, ret |-> old]

\* std::unique_ptr move assignment: reset(other.release())
base_move_assign(Dispose, old, otherPtr) ==
    LET rel == base_release(otherPtr)
        rst == base_reset(Dispose, old, rel.ret)
    IN  [ptr |-> rst.ptr, other |-> rel.ptr, calls |-> rst.calls]

\* WRAP_EXCHANGE(val, new): returns the old value, val becomes new
WRAP_EXCHANGE(val, new) == [ret |-> val, val |-> new]

-----------------------------------------------------------------------------
(* device_handle : unique_resource_ptr<libusb_device_handle, libusb_close> *)

Range(s) == {s[i] : i \in 1..Len(s)}

Contains(s, x) == \E i \in 1..Len(s) : s[i] = x

\* std::vector::erase of the first element equal to x
Erase(s, x) ==
    LET i == CHOOSE k \in 1..Len(s) : s[k] = x /\ \A j \in 1..(k-1) : s[j] # x
    IN  SubSeq(s, 1, i-1) \o SubSeq(s, i+1, Len(s))

NoDup(s) == \A i, j \in 1..Len(s) : i # j => s[i] # s[j]

\* a destroyed (or not yet constructed) device_handle
DeadHandle == [live |-> FALSE, ptr |-> NULL, claimedInterfaces |-> <<>>]

\* device_handle() / device_handle(pointer): inherited unique_ptr constructors,
\* claimedInterfaces{} default member initialiser
device_handle_ctor(ptr) == [live |-> TRUE, ptr |-> ptr, claimedInterfaces |-> <<>>]

\* the loop of reset(): libusb_release_interface for every claimed interface,
\* Throw = false; rcs[i] is what the i-th native call returns
RECURSIVE release_loop(_, _, _)
release_loop(ptr, ifs, rcs) ==
    IF ifs = <<>> THEN Quiet
    ELSE LET r == call_log_throw("MVLOG_ERROR", FALSE, "libusb_release_interface",
                                 ptr, Head(ifs), Head(rcs))
         IN  IF r.thrown # NoError THEN r
             ELSE LET rest == release_loop(ptr, Tail(ifs), Tail(rcs))
                  IN  [calls  |-> r.calls \o rest.calls,
                       logs   |-> r.logs \o rest.logs,
                       thrown |-> rest.thrown,
                       rc     |-> 0]

\* device_handle::reset(ptr): release every claimed interface, then the base
\* reset; claimedInterfaces is left as it is
device_handle_reset(self, ptr, rcs) ==
    LET loop == release_loop(self.ptr, self.claimedInterfaces, rcs)
        b == base_reset("libusb_close", self.ptr, ptr)
    IN  IF loop.thrown # NoError
        THEN [self |-> self, calls |-> loop.calls, logs |-> loop.logs,
              thrown |-> loop.thrown, ret |-> NULL]
        ELSE [self |-> [self EXCEPT !.ptr = b.ptr], calls |-> loop.calls \o b.calls,
              logs |-> loop.logs, thrown |-> NoError, ret |-> NULL]

\* device_handle::~device_handle: reset(), then the members and the (now empty)
\* base are destroyed
device_handle_dtor(self, rcs) ==
    LET r == device_handle_reset(self, NULL, rcs)
    IN  [self |-> DeadHandle,
         calls |-> r.calls \o base_dtor("libusb_close", r.self.ptr),
         logs |-> r.logs, thrown |-> r.thrown, ret |-> NULL]

\* mutant: release() forgets to clear the claimed set
device_handle_release_keepset(self) ==
    LET b == base_release(self.ptr)
    IN  [self |-> [self EXCEPT !.ptr = b.ptr], calls |-> <<>>, logs |-> <<>>,
         thrown |-> NoError, ret |-> b.ret]

\* device_handle::release(): claimedInterfaces.clear(), then the base release
device_handle_release(self) ==
    LET b == base_release(self.ptr)
    IN  [self |-> [self EXCEPT !.ptr = b.ptr, !.claimedInterfaces = <<>>],
         calls |-> <<>>, logs |-> <<>>, thrown |-> NoError, ret |-> b.ret]

\* mutant: claim_interface without the already-claimed test
claim_interface_nofind(self, interface_number, rc) ==
    LET r == CALL_LOG_ERROR_THROW("libusb_claim_interface", self.ptr, interface_number, rc)
    IN  IF r.thrown # NoError
        THEN [self |-> self, calls |-> r.calls, logs |-> r.logs,
              thrown |-> r.thrown, ret |-> 0]
        ELSE [self |-> [self EXCEPT !.claimedInterfaces = Append(@, interface_number)],
              calls |-> r.calls, logs |-> r.logs, thrown |-> NoError, ret |-> 0]

\* mutant: claim_interface records the interface before the native call
claim_interface_early(self, interface_number, rc) ==
    LET r == CALL_LOG_ERROR_THROW("libusb_claim_interface", self.ptr, interface_number, rc)
    IN  IF Contains(self.claimedInterfaces, interface_number)
        THEN [self |-> self, calls |-> <<>>, logs |-> <<>>, thrown |-> NoError, ret |-> 0]
        ELSE [self |-> [self EXCEPT !.claimedInterfaces = Append(@, interface_number)],
              calls |-> r.calls, logs |-> r.logs, thrown |-> r.thrown, ret |-> 0]

\* device_handle::claim_interface(n); rc is what libusb_claim_interface returns
\* if it is called
claim_interface(self, interface_number, rc) ==
    IF Contains(self.claimedInterfaces, interface_number)
    THEN [self |-> self, calls |-> <<>>, logs |-> <<>>, thrown |-> NoError, ret |-> 0]
    ELSE LET r == CALL_LOG_ERROR_THROW("libusb_claim_interface", self.ptr,
                                       interface_number, rc)
         IN  IF r.thrown # NoError
             THEN [self |-> self, calls |-> r.calls, logs |-> r.logs,
                   thrown |-> r.thrown, ret |-> 0]
             ELSE [self |-> [self EXCEPT !.claimedInterfaces = Append(@, interface_number)],
                   calls |-> r.calls, logs |-> r.logs, thrown |-> NoError, ret |-> 0]

\* mutant: release_interface drops the last recorded interface instead of n
release_interface_popback(self, interface_number, rc) ==
    IF ~Contains(self.claimedInterfaces, interface_number)
    THEN [self |-> self, calls |-> <<>>, logs |-> <<>>, thrown |-> NoError, ret |-> 0]
    ELSE LET r == CALL_LOG_ERROR_THROW("libusb_release_interface", self.ptr,
                                       interface_number, rc)
         IN  IF r.thrown # NoError
             THEN [self |-> self, calls |-> r.calls, logs |-> r.logs,
                   thrown |-> r.thrown, ret |-> 0]
             ELSE [self |-> [self EXCEPT !.claimedInterfaces = SubSeq(@, 1, Len(@) - 1)],
                   calls |-> r.calls, logs |-> r.logs, thrown |-> NoError, ret |-> 0]

\* device_handle::release_interface(n); rc is what libusb_release_interface
\* returns if it is called
release_interface(self, interface_number, rc) ==
    IF ~Contains(self.claimedInterfaces, interface_number)
    THEN [self |-> self, calls |-> <<>>, logs |-> <<>>, thrown |-> NoError, ret |-> 0]
    ELSE LET r == CALL_LOG_ERROR_THROW("libusb_release_interface", self.ptr,
                                       interface_number, rc)
         IN  IF r.thrown # NoError
             THEN [self |-> self, calls |-> r.calls, logs |-> r.logs,
                   thrown |-> r.thrown, ret |-> 0]
             ELSE [self |-> [self EXCEPT !.claimedInterfaces = Erase(@, interface_number)],
                   calls |-> r.calls, logs |-> r.logs, thrown |-> NoError, ret |-> 0]

\* device_handle(device_handle&& other): base and claimedInterfaces are
\* exchanged out of other
device_handle_move_ctor(other) ==
    LET b == WRAP_EXCHANGE(other.ptr, NULL)
        c == WRAP_EXCHANGE(other.claimedInterfaces, <<>>)
    IN  [self  |-> [live |-> TRUE, ptr |-> b.ret, claimedInterfaces |-> c.ret],
         other |-> [other EXCEPT !.ptr = b.val, !.claimedInterfaces = c.val],
         calls |-> <<>>]

\* device_handle::operator=(device_handle&& other) for this # &other: the base
\* is move-assigned from the exchanged-out base of other, then claimedInterfaces
\* is replaced by other's
device_handle_move_assign(self, other) ==
    LET b == WRAP_EXCHANGE(other.ptr, NULL)
        m == base_move_assign("libusb_close", self.ptr, b.ret)
        c == WRAP_EXCHANGE(other.claimedInterfaces, <<>>)
    IN  [self  |-> [self EXCEPT !.ptr = m.ptr, !.claimedInterfaces = c.ret],
         other |-> [other EXCEPT !.ptr = b.val, !.claimedInterfaces = c.val],
         calls |-> m.calls \o base_dtor("libusb_close", m.other)]

-----------------------------------------------------------------------------
(* The native layer as the wrappers see it                                 *)

\* effect of one returned native call on the channels
ChanStep(nat, c) ==
    IF ~c.returned \/ c.h = NULL \/ c.h \notin Channels THEN nat
    ELSE CASE c.fn = "libusb_claim_interface" /\ c.rc = 0 ->
                  [nat EXCEPT ![c.h].claimed = @ \cup {c.a}]
           [] c.fn = "libusb_release_interface" /\ c.rc = 0 ->
                  [nat EXCEPT ![c.h].claimed = @ \ {c.a}]
           [] c.fn = "libusb_close" ->
                  [nat EXCEPT ![c.h] = [st |-> "closed", claimed |-> {},
                                        closes |-> @.closes + 1, dev |-> @.dev]]
           [] OTHER -> nat

RECURSIVE ApplyChan(_, _)
ApplyChan(nat, cs) ==
    IF cs = <<>> THEN nat ELSE ApplyChan(ChanStep(nat, Head(cs)), Tail(cs))

\* libusb_close also drops the device reference libusb_open took for the channel
CloseStep(cnt, nat, c) ==
    IF c.returned /\ c.fn = "libusb_close" /\ c.h \in Channels /\ nat[c.h].dev # NULL
    THEN [cnt EXCEPT ![nat[c.h].dev] = @ - 1]
    ELSE cnt

RECURSIVE ApplyClose(_, _, _)
ApplyClose(cnt, nat, cs) ==
    IF cs = <<>> THEN cnt ELSE ApplyClose(CloseStep(cnt, nat, Head(cs)), nat, Tail(cs))

\* results libusb_claim_interface may return on an open channel
ClaimOutcomes == {0} \cup ErrCodes

\* results libusb_release_interface may return: success only for an interface
\* the native layer holds claimed on that open channel
ReleaseOutcomes(nat, ptr, n) ==
    IF ptr # NULL /\ nat[ptr].st = "open" /\ n \in nat[ptr].claimed
    THEN {0} \cup ErrCodes
    ELSE ErrCodes

\* the result vectors the release loop of reset() may meet
ReleaseVectors(nat, ptr, ifs) ==
    {rcs \in [1..Len(ifs) -> {0} \cup ErrCodes] :
        \A i \in 1..Len(ifs) : rcs[i] \in ReleaseOutcomes(nat, ptr, ifs[i])}

\* a new object takes the lowest slot that holds no live object
NewHandleSlot(h) == ~dh[h].live /\ \A g \in HandleObjs : g < h => dh[g].live
NewDevSlot(o) == ~ud[o].live /\ \A g \in DevObjs : g < o => ud[g].live
NewResSlot(o) == ~up[o].live /\ \A g \in ResObjs : g < o => up[g].live

NoOp == [op |-> "none", obj |-> 0, arg |-> 0, src |-> 0]

Op(op, obj, arg, src) == [op |-> op, obj |-> obj, arg |-> arg, src |-> src]

Init ==
    /\ dh = [h \in HandleObjs |-> DeadHandle]
    /\ natChan = [c \in Channels |-> [st |-> "free", claimed |-> {}, closes |-> 0, dev |-> NULL]]
    /\ callerHas = {}
    /\ ud = [o \in DevObjs |-> [live |-> FALSE, ptr |-> NULL]]
    /\ refcnt = [d \in Devices |-> BaseRef]
    /\ heldRefs = [d \in Devices |-> 0]
    /\ dl = [o \in ListObjs |-> [live |-> FALSE, countDevices |-> 0, deviceList |-> NULL]]
    /\ natList = [a \in Arrays |-> [st |-> "free", devs |-> <<>>, frees |-> 0]]
    /\ up = [o \in ResObjs |-> [live |-> FALSE, kind |-> "none", ptr |-> NULL]]
    /\ natRes = [r \in Resources |-> [st |-> "free", kind |-> "none", disposes |-> 0]]
    /\ resHas = {}
    /\ calls = <<>>
    /\ logs = <<>>
    /\ raised = NoError
    /\ ret = 0
    /\ last = NoOp
    /\ crashed = FALSE
    /\ steps = 0

DevVars == <<ud, refcnt, heldRefs>>
ResVars == <<up, natRes, resHas>>
ChanVars == <<dh, natChan, callerHas>>
ListVars == <<dl, natList>>

\* every operation counts against the length of the run
Tick == steps < MaxSteps /\ steps' = steps + 1

\* the process dies inside a native call handed an invalid argument
Crash(op, c) ==
    /\ Tick
    /\ crashed' = TRUE
    /\ calls' = <<c>>
    /\ logs' = <<>>
    /\ raised' = NoError
    /\ ret' = 0
    /\ last' = op
    /\ UNCHANGED <<ChanVars, DevVars, ListVars, ResVars>>

\* what an operation on device handles leaves behind
HandleDone(op, newdh, newCaller, r) ==
    /\ Tick
    /\ dh' = newdh
    /\ natChan' = ApplyChan(natChan, r.calls)
    /\ callerHas' = newCaller
    /\ calls' = r.calls
    /\ logs' = r.logs
    /\ raised' = r.thrown
    /\ ret' = r.ret
    /\ last' = op
    /\ refcnt' = ApplyClose(refcnt, natChan, r.calls)
    /\ UNCHANGED <<ud, heldRefs, ListVars, ResVars, crashed>>

Silent(v) == [calls |-> <<>>, logs |-> <<>>, thrown |-> NoError, ret |-> v]

-----------------------------------------------------------------------------
(* Operations on device handles                                            *)

\* the caller opens a channel itself (libusb_open / libusb_wrap_sys_device)
NativeOpen(c) ==
    /\ ~crashed
    /\ Tick
    /\ natChan[c].st = "free"
    /\ \A b \in Channels : b < c => natChan[b].st # "free"   \* fresh values in order
    /\ natChan' = [natChan EXCEPT ![c].st = "open"]
    /\ callerHas' = callerHas \cup {c}
    /\ calls' = <<>> /\ logs' = <<>> /\ raised' = NoError /\ ret' = c
    /\ last' = Op("native_open", 0, c, 0)
    /\ UNCHANGED <<dh, DevVars, ListVars, ResVars, crashed>>

\* the caller closes a channel it holds itself
CallerClose(c) ==
    /\ ~crashed
    /\ Tick
    /\ c \in callerHas
    /\ natChan' = ApplyChan(natChan, <<Call("libusb_close", c, 0, 0)>>)
    /\ callerHas' = callerHas \ {c}
    /\ calls' = <<>> /\ logs' = <<>> /\ raised' = NoError /\ ret' = 0
    /\ last' = Op("caller_close", 0, c, 0)
    /\ refcnt' = ApplyClose(refcnt, natChan, <<Call("libusb_close", c, 0, 0)>>)
    /\ UNCHANGED <<dh, ud, heldRefs, ListVars, ResVars, crashed>>

\* device_handle h(p) / device_handle h
DhConstruct(h, p) ==
    /\ ~crashed
    /\ NewHandleSlot(h)
    /\ p \in callerHas \cup {NULL}
    /\ HandleDone(Op("ctor", h, p, 0), [dh EXCEPT ![h] = device_handle_ctor(p)],
                  callerHas \ {p}, Silent(0))

\* h.reset(p)
DhReset(h, p) ==
    /\ ~crashed
    /\ dh[h].live
    /\ p \in callerHas \cup {NULL}
    /\ \/ \E rcs \in ReleaseVectors(natChan, dh[h].ptr, dh[h].claimedInterfaces) :
            LET r == device_handle_reset(dh[h], p, rcs)
            IN  HandleDone(Op("reset", h, p, 0), [dh EXCEPT ![h] = r.self],
                           callerHas \ {p}, r)
       \/ /\ dh[h].ptr = NULL /\ dh[h].claimedInterfaces # <<>>
          /\ Crash(Op("reset", h, p, 0),
                   DeadCall("libusb_release_interface", NULL, Head(dh[h].claimedInterfaces)))

\* h goes out of scope
DhDestroy(h) ==
    /\ ~crashed
    /\ dh[h].live
    /\ \/ \E rcs \in ReleaseVectors(natChan, dh[h].ptr, dh[h].claimedInterfaces) :
            LET r == device_handle_dtor(dh[h], rcs)
            IN  HandleDone(Op("dtor", h, 0, 0), [dh EXCEPT ![h] = r.self], callerHas, r)
       \/ /\ dh[h].ptr = NULL /\ dh[h].claimedInterfaces # <<>>
          /\ Crash(Op("dtor", h, 0, 0),
                   DeadCall("libusb_release_interface", NULL, Head(dh[h].claimedInterfaces)))

\* p = h.release()
DhRelease(h) ==
    /\ ~crashed
    /\ dh[h].live
    /\ LET r == device_handle_release(dh[h])
       IN  HandleDone(Op("release", h, 0, 0), [dh EXCEPT ![h] = r.self],
                      callerHas \cup ({r.ret} \ {NULL}), r)

\* h.claim_interface(n) on a handle that owns a channel
DhClaim(h, n) ==
    /\ ~crashed
    /\ dh[h].live
    /\ dh[h].ptr # NULL
    /\ \E rc \in ClaimOutcomes :
         LET r == claim_interface(dh[h], n, rc)
         IN  HandleDone(Op("claim_interface", h, n, 0), [dh EXCEPT ![h] = r.self],
                        callerHas, r)

\* h.release_interface(n)
DhReleaseInterface(h, n) ==
    /\ ~crashed
    /\ dh[h].live
    /\ \/ \E rc \in ReleaseOutcomes(natChan, dh[h].ptr, n) :
            LET r == release_interface(dh[h], n, rc)
            IN  HandleDone(Op("release_interface", h, n, 0), [dh EXCEPT ![h] = r.self],
                           callerHas, r)
       \/ /\ dh[h].ptr = NULL /\ Contains(dh[h].claimedInterfaces, n)
          /\ Crash(Op("release_interface", h, n, 0),
                   DeadCall("libusb_release_interface", NULL, n))

\* device_handle dst(std::move(src))
DhMoveConstruct(dst, src) ==
    /\ ~crashed
    /\ NewHandleSlot(dst)
    /\ dh[src].live
    /\ LET r == device_handle_move_ctor(dh[src])
       IN  HandleDone(Op("move_ctor", dst, 0, src),
                      [dh EXCEPT ![dst] = r.self, ![src] = r.other], callerHas,
                      [Silent(0) EXCEPT !.calls = r.calls])

\* dst = std::move(src)
DhMoveAssign(dst, src) ==
    /\ ~crashed
    /\ dh[dst].live
    /\ dh[src].live
    /\ IF dst = src
       THEN HandleDone(Op("move_assign", dst, 0, src), dh, callerHas, Silent(0))
       ELSE LET r == device_handle_move_assign(dh[dst], dh[src])
            IN  HandleDone(Op("move_assign", dst, 0, src),
                           [dh EXCEPT ![dst] = r.self, ![src] = r.other], callerHas,
                           [Silent(0) EXCEPT !.calls = r.calls])

NextHandle ==
    \/ \E c \in Channels : NativeOpen(c)
    \/ \E c \in Channels : CallerClose(c)
    \/ \E h \in HandleObjs, p \in Channels \cup {NULL} : DhConstruct(h, p)
    \/ \E h \in HandleObjs, p \in Channels \cup {NULL} : DhReset(h, p)
    \/ \E h \in HandleObjs : DhDestroy(h)
    \/ \E h \in HandleObjs : DhRelease(h)
    \/ \E h \in HandleObjs, n \in Interfaces : DhClaim(h, n)
    \/ \E h \in HandleObjs, n \in Interfaces : DhReleaseInterface(h, n)
    \/ \E dst, src \in HandleObjs : DhMoveConstruct(dst, src)
    \/ \E dst, src \in HandleObjs : DhMoveAssign(dst, src)

SpecHandle == Init /\ [][NextHandle]_vars

-----------------------------------------------------------------------------
(* usb_device : unique_resource_ptr<libusb_device, libusb_unref_device>    *)

DeadDevice == [live |-> FALSE, ptr |-> NULL]

\* std::unique_ptr move assignment onto itself: reset(release()) of one object
base_self_move_assign(Dispose, old) ==
    LET rel == base_release(old)
        rst == base_reset(Dispose, rel.ptr, rel.ret)
    IN  [ptr |-> rst.ptr, calls |-> rst.calls]

\* mutant: the constructor stores the pointer without taking a reference
usb_device_ctor_borrow(p) ==
    [self |-> [live |-> TRUE, ptr |-> p], calls |-> <<>>]

\* usb_device(pointer p): _base{libusb_ref_device(p)}; the native call returns p
usb_device_ctor(p) ==
    [self |-> [live |-> TRUE, ptr |-> p],
     calls |-> <<Call("libusb_ref_device", p, 0, 0)>>]

\* usb_device() / usb_device(nullptr): inherited unique_ptr constructors
usb_device_default == [live |-> TRUE, ptr |-> NULL]

\* mutant: reset() lets go of the old identity before it references the new one
usb_device_reset_unref_first(self, p) ==
    LET b == base_reset("libusb_unref_device", self.ptr, p)
    IN  [self |-> [self EXCEPT !.ptr = b.ptr],
         calls |-> b.calls \o <<Call("libusb_ref_device", p, 0, 0)>>]

\* usb_device::reset(p): base reset(libusb_ref_device(p))
usb_device_reset(self, p) ==
    LET b == base_reset("libusb_unref_device", self.ptr, p)
    IN  [self |-> [self EXCEPT !.ptr = b.ptr],
         calls |-> <<Call("libusb_ref_device", p, 0, 0)>> \o b.calls]

\* usb_device::~usb_device (implicit): the base destructor
usb_device_dtor(self) ==
    [self |-> DeadDevice, calls |-> base_dtor("libusb_unref_device", self.ptr)]

\* usb_device::release(): inherited from std::unique_ptr
usb_device_release(self) ==
    LET b == base_release(self.ptr)
    IN  [self |-> [self EXCEPT !.ptr = b.ptr], ret |-> b.ret]

\* out_param(smart) around a native call that stores the raw pointer p:
\* smart.reset(p) when the full expression ends
out_param(smart, p, rcs) == device_handle_reset(smart, p, rcs)

\* mutant: open() hands the handle back although the native call failed
usb_device_open_nothrow(self, p, rc) ==
    LET r == call_log_throw_silent("MVLOG_ERROR", TRUE, "libusb_open", self.ptr, 0, rc)
        o == out_param(device_handle_ctor(NULL), p, <<>>)
    IN  [handle |-> o.self, calls |-> r.calls \o o.calls, logs |-> r.logs,
         thrown |-> r.thrown, ret |-> 0]

\* usb_device::open(): device_handle handle; libusb_open(get(), out_param(handle));
\* rc and p are what libusb_open returns and stores.  When the call throws, the
\* local handle is destroyed during unwinding
usb_device_open(self, p, rc) ==
    LET r == CALL_LOG_ERROR_THROW("libusb_open", self.ptr, 0, rc)
        o == out_param(device_handle_ctor(NULL), p, <<>>)
    IN  IF r.thrown # NoError
        THEN LET d == device_handle_dtor(o.self, <<>>)
             IN  [handle |-> d.self, calls |-> r.calls \o o.calls \o d.calls,
                  logs |-> r.logs, thrown |-> r.thrown, ret |-> 0]
        ELSE [handle |-> o.self, calls |-> r.calls \o o.calls, logs |-> r.logs,
              thrown |-> NoError, ret |-> 0]

\* effect of one returned native call on the reference counts
RefStep(cnt, c) ==
    IF ~c.returned \/ c.h = NULL \/ c.h \notin Devices THEN cnt
    ELSE CASE c.fn = "libusb_ref_device"   -> [cnt EXCEPT ![c.h] = @ + 1]
           [] c.fn = "libusb_unref_device" -> [cnt EXCEPT ![c.h] = @ - 1]
           [] OTHER -> cnt

RECURSIVE ApplyRef(_, _)
ApplyRef(cnt, cs) ==
    IF cs = <<>> THEN cnt ELSE ApplyRef(RefStep(cnt, Head(cs)), Tail(cs))

\* what an operation on usb devices leaves behind
DeviceDone(op, newud, newHeld, cs, v) ==
    /\ Tick
    /\ ud' = newud
    /\ refcnt' = ApplyRef(refcnt, cs)
    /\ heldRefs' = newHeld
    /\ calls' = cs
    /\ logs' = <<>>
    /\ raised' = NoError
    /\ ret' = v
    /\ last' = op
    /\ UNCHANGED <<ChanVars, ListVars, ResVars, crashed>>

\* usb_device o(p), p a raw identity the caller got from the native layer
UdConstruct(o, p) ==
    /\ ~crashed
    /\ NewDevSlot(o)
    /\ \/ LET r == usb_device_ctor(p)
          IN  DeviceDone(Op("ud_ctor", o, p, 0), [ud EXCEPT ![o] = r.self],
                         heldRefs, r.calls, 0)
       \/ /\ p = NULL
          /\ Crash(Op("ud_ctor", o, p, 0), DeadCall("libusb_ref_device", NULL, 0))

\* usb_device o
UdDefault(o) ==
    /\ ~crashed
    /\ NewDevSlot(o)
    /\ DeviceDone(Op("ud_default", o, 0, 0), [ud EXCEPT ![o] = usb_device_default],
                  heldRefs, <<>>, 0)

\* o.reset(p)
UdReset(o, p) ==
    /\ ~crashed
    /\ ud[o].live
    /\ \/ LET r == usb_device_reset(ud[o], p)
          IN  DeviceDone(Op("ud_reset", o, p, 0), [ud EXCEPT ![o] = r.self],
                         heldRefs, r.calls, 0)
       \/ /\ p = NULL
          /\ Crash(Op("ud_reset", o, p, 0), DeadCall("libusb_ref_device", NULL, 0))

\* o goes out of scope
UdDestroy(o) ==
    /\ ~crashed
    /\ ud[o].live
    /\ LET r == usb_device_dtor(ud[o])
       IN  DeviceDone(Op("ud_dtor", o, 0, 0), [ud EXCEPT ![o] = r.self],
                      heldRefs, r.calls, 0)

RECURSIVE SumTo(_, _)
SumTo(f, n) == IF n = 0 THEN 0 ELSE f[n] + SumTo(f, n - 1)

\* references the caller holds after release() calls
TotalHeld == SumTo(heldRefs, NumDevices)

\* p = o.release()
UdRelease(o) ==
    /\ ~crashed
    /\ ud[o].live
    /\ ud[o].ptr = NULL \/ TotalHeld < MaxHeld
    /\ LET r == usb_device_release(ud[o])
       IN  DeviceDone(Op("ud_release", o, 0, 0), [ud EXCEPT ![o] = r.self],
                      IF r.ret = NULL THEN heldRefs
                      ELSE [heldRefs EXCEPT ![r.ret] = @ + 1], <<>>, r.ret)

\* the caller unreferences an identity it got from release()
CallerUnref(d) ==
    /\ ~crashed
    /\ Tick
    /\ heldRefs[d] > 0
    /\ heldRefs' = [heldRefs EXCEPT ![d] = @ - 1]
    /\ refcnt' = ApplyRef(refcnt, <<Call("libusb_unref_device", d, 0, 0)>>)
    /\ calls' = <<>> /\ logs' = <<>> /\ raised' = NoError /\ ret' = 0
    /\ last' = Op("caller_unref", 0, d, 0)
    /\ UNCHANGED <<ud, ChanVars, ListVars, ResVars, crashed>>

\* usb_device dst(std::move(src)): implicit, the unique_ptr move constructor
UdMoveConstruct(dst, src) ==
    /\ ~crashed
    /\ NewDevSlot(dst)
    /\ ud[src].live
    /\ LET b == base_release(ud[src].ptr)
       IN  DeviceDone(Op("ud_move_ctor", dst, 0, src),
                      [ud EXCEPT ![dst] = [live |-> TRUE, ptr |-> b.ret],
                                 ![src] = [@ EXCEPT !.ptr = b.ptr]],
                      heldRefs, <<>>, 0)

\* dst = std::move(src): implicit, the unique_ptr move assignment
UdMoveAssign(dst, src) ==
    /\ ~crashed
    /\ ud[dst].live
    /\ ud[src].live
    /\ IF dst = src
       THEN LET m == base_self_move_assign("libusb_unref_device", ud[dst].ptr)
            IN  DeviceDone(Op("ud_move_assign", dst, 0, src),
                           [ud EXCEPT ![dst] = [@ EXCEPT !.ptr = m.ptr]],
                           heldRefs, m.calls, 0)
       ELSE LET m == base_move_assign("libusb_unref_device", ud[dst].ptr, ud[src].ptr)
            IN  DeviceDone(Op("ud_move_assign", dst, 0, src),
                           [ud EXCEPT ![dst] = [@ EXCEPT !.ptr = m.ptr],
                                      ![src] = [@ EXCEPT !.ptr = m.other]],
                           heldRefs, m.calls, 0)

\* the raw channel libusb_open stores on success: the lowest fresh one
FreshChannels ==
    {c \in Channels : natChan[c].st = "free"
                      /\ \A b \in Channels : b < c => natChan[b].st # "free"}

\* device_handle h = o.open() on a usb_device that owns an identity
UdOpen(o, h) ==
    /\ ~crashed
    /\ Tick
    /\ ud[o].live
    /\ ud[o].ptr # NULL
    /\ NewHandleSlot(h)
    /\ Cardinality({c \in Channels : natChan[c].st = "open" /\ natChan[c].dev # NULL}) < MaxOpen
    /\ \E rc \in {0} \cup ErrCodes, p \in Channels \cup {NULL} :
         /\ IF rc = 0 THEN p \in FreshChannels ELSE p = NULL
         /\ LET r == usb_device_open(ud[o], p, rc)
                opened == IF rc = 0
                          THEN [natChan EXCEPT ![p].st = "open", ![p].dev = ud[o].ptr]
                          ELSE natChan
            IN  /\ dh' = [dh EXCEPT ![h] = r.handle]
                /\ natChan' = ApplyChan(opened, r.calls)
                /\ refcnt' = ApplyClose(IF rc = 0 THEN [refcnt EXCEPT ![ud[o].ptr] = @ + 1]
                                         ELSE refcnt, opened, r.calls)
                /\ calls' = r.calls
                /\ logs' = r.logs
                /\ raised' = r.thrown
                /\ ret' = r.ret
                /\ last' = Op("open", o, rc, h)
                /\ UNCHANGED <<callerHas, ud, heldRefs, ListVars, ResVars, crashed>>

NextDevice ==
    \/ \E o \in DevObjs, p \in Devices \cup {NULL} : UdConstruct(o, p)
    \/ \E o \in DevObjs : UdDefault(o)
    \/ \E o \in DevObjs, p \in Devices \cup {NULL} : UdReset(o, p)
    \/ \E o \in DevObjs : UdDestroy(o)
    \/ \E o \in DevObjs : UdRelease(o)
    \/ \E d \in Devices : CallerUnref(d)
    \/ \E dst, src \in DevObjs : UdMoveConstruct(dst, src)
    \/ \E dst, src \in DevObjs : UdMoveAssign(dst, src)
    \/ \E o \in DevObjs, h \in HandleObjs : UdOpen(o, h)
    \/ \E h \in HandleObjs : DhDestroy(h)

SpecDevice == Init /\ [][NextDevice]_vars

-----------------------------------------------------------------------------
(* usb_context and config_descriptor: unique_resource_ptr with libusb_exit *)
(* and libusb_free_config_descriptor                                       *)

Kinds == {"usb_context", "config_descriptor"}

DisposeOf(kind) ==
    IF kind = "usb_context" THEN "libusb_exit" ELSE "libusb_free_config_descriptor"

DeadRes == [live |-> FALSE, kind |-> "none", ptr |-> NULL]

\* config_descriptor(dev, config_index): libusb_get_config_descriptor through
\* out_param(*this); rc and p are what the native call returns and stores
config_descriptor_ctor(p, rc) ==
    LET r == CALL_LOG_ERROR_THROW("libusb_get_config_descriptor", 0, 0, rc)
        b == base_reset("libusb_free_config_descriptor", NULL, p)
    IN  IF r.thrown # NoError
        THEN [self |-> DeadRes, calls |-> r.calls \o b.calls
                                          \o base_dtor("libusb_free_config_descriptor", b.ptr),
              logs |-> r.logs, thrown |-> r.thrown, ret |-> 0]
        ELSE [self |-> [live |-> TRUE, kind |-> "config_descriptor", ptr |-> b.ptr],
              calls |-> r.calls \o b.calls, logs |-> r.logs, thrown |-> NoError, ret |-> 0]

\* effect of one returned native call on the plain resources
ResStep(nat, c) ==
    IF c.returned /\ c.fn \in {"libusb_exit", "libusb_free_config_descriptor"}
       /\ c.h \in Resources
    THEN [nat EXCEPT ![c.h].st = "disposed", ![c.h].disposes = @ + 1]
    ELSE nat

RECURSIVE ApplyRes(_, _)
ApplyRes(nat, cs) ==
    IF cs = <<>> THEN nat ELSE ApplyRes(ResStep(nat, Head(cs)), Tail(cs))

FreshRes ==
    {r \in Resources : natRes[r].st = "free"
                       /\ \A b \in Resources : b < r => natRes[b].st # "free"}

\* what an operation on plain resources leaves behind
ResDone(op, newup, newNat, newHas, r) ==
    /\ Tick
    /\ up' = newup
    /\ natRes' = ApplyRes(newNat, r.calls)
    /\ resHas' = newHas
    /\ calls' = r.calls
    /\ logs' = r.logs
    /\ raised' = r.thrown
    /\ ret' = r.ret
    /\ last' = op
    /\ UNCHANGED <<ChanVars, DevVars, ListVars, crashed>>

\* the caller creates a raw resource itself (libusb_init, or a raw descriptor fetch)
NativeCreate(r, k) ==
    /\ ~crashed
    /\ r \in FreshRes
    /\ ResDone(Op("native_create", 0, r, 0), up,
               [natRes EXCEPT ![r] = [st |-> "live", kind |-> k, disposes |-> 0]],
               resHas \cup {r}, Silent(r))

\* the caller disposes of a raw resource it holds itself
CallerDispose(r) ==
    /\ ~crashed
    /\ r \in resHas
    /\ ResDone(Op("caller_dispose", 0, r, 0), up,
               ApplyRes(natRes, <<Call(DisposeOf(natRes[r].kind), r, 0, 0)>>),
               resHas \ {r}, Silent(0))

\* usb_context o(p) / config_descriptor o(p), or the empty object for p = nullptr
UpConstruct(o, k, p) ==
    /\ ~crashed
    /\ NewResSlot(o)
    /\ p \in resHas \cup {NULL}
    /\ p # NULL => natRes[p].kind = k
    /\ ResDone(Op("up_ctor", o, p, 0),
               [up EXCEPT ![o] = [live |-> TRUE, kind |-> k, ptr |-> p]],
               natRes, resHas \ {p}, Silent(0))

\* config_descriptor o(dev, config_index)
CfgConstruct(o) ==
    /\ ~crashed
    /\ NewResSlot(o)
    /\ \E rc \in {0} \cup ErrCodes, p \in Resources \cup {NULL} :
         /\ IF rc = 0 THEN p \in FreshRes ELSE p = NULL
         /\ LET r == config_descriptor_ctor(p, rc)
            IN  ResDone(Op("cfg_ctor", o, rc, 0), [up EXCEPT ![o] = r.self],
                        IF rc = 0
                        THEN [natRes EXCEPT ![p] = [st |-> "live",
                                                    kind |-> "config_descriptor",
                                                    disposes |-> 0]]
                        ELSE natRes,
                        resHas, r)

\* o.reset(p)
UpReset(o, p) ==
    /\ ~crashed
    /\ up[o].live
    /\ p \in resHas \cup {NULL}
    /\ p # NULL => natRes[p].kind = up[o].kind
    /\ LET b == base_reset(DisposeOf(up[o].kind), up[o].ptr, p)
       IN  ResDone(Op("up_reset", o, p, 0), [up EXCEPT ![o].ptr = b.ptr],
                   natRes, resHas \ {p}, [Silent(0) EXCEPT !.calls = b.calls])

\* p = o.release()
UpRelease(o) ==
    /\ ~crashed
    /\ up[o].live
    /\ LET b == base_release(up[o].ptr)
       IN  ResDone(Op("up_release", o, 0, 0), [up EXCEPT ![o].ptr = b.ptr],
                   natRes, resHas \cup ({b.ret} \ {NULL}), Silent(b.ret))

\* o goes out of scope
UpDestroy(o) ==
    /\ ~crashed
    /\ up[o].live
    /\ ResDone(Op("up_dtor", o, 0, 0), [up EXCEPT ![o] = DeadRes], natRes, resHas,
               [Silent(0) EXCEPT !.calls = base_dtor(DisposeOf(up[o].kind), up[o].ptr)])

\* T dst(std::move(src))
UpMoveConstruct(dst, src) ==
    /\ ~crashed
    /\ NewResSlot(dst)
    /\ up[src].live
    /\ LET b == base_release(up[src].ptr)
       IN  ResDone(Op("up_move_ctor", dst, 0, src),
                   [up EXCEPT ![dst] = [live |-> TRUE, kind |-> up[src].kind, ptr |-> b.ret],
                              ![src].ptr = b.ptr],
                   natRes, resHas, Silent(0))

\* dst = std::move(src), both of one type
UpMoveAssign(dst, src) ==
    /\ ~crashed
    /\ up[dst].live
    /\ up[src].live
    /\ up[dst].kind = up[src].kind
    /\ IF dst = src
       THEN LET m == base_self_move_assign(DisposeOf(up[dst].kind), up[dst].ptr)
            IN  ResDone(Op("up_move_assign", dst, 0, src), [up EXCEPT ![dst].ptr = m.ptr],
                        natRes, resHas, [Silent(0) EXCEPT !.calls = m.calls])
       ELSE LET m == base_move_assign(DisposeOf(up[dst].kind), up[dst].ptr, up[src].ptr)
            IN  ResDone(Op("up_move_assign", dst, 0, src),
                        [up EXCEPT ![dst].ptr = m.ptr, ![src].ptr = m.other],
                        natRes, resHas, [Silent(0) EXCEPT !.calls = m.calls])

NextRes ==
    \/ \E r \in Resources, k \in Kinds : NativeCreate(r, k)
    \/ \E r \in Resources : CallerDispose(r)
    \/ \E o \in ResObjs, k \in Kinds, p \in Resources \cup {NULL} : UpConstruct(o, k, p)
    \/ \E o \in ResObjs : CfgConstruct(o)
    \/ \E o \in ResObjs, p \in Resources \cup {NULL} : UpReset(o, p)
    \/ \E o \in ResObjs : UpRelease(o)
    \/ \E o \in ResObjs : UpDestroy(o)
    \/ \E dst, src \in ResObjs : UpMoveConstruct(dst, src)
    \/ \E dst, src \in ResObjs : UpMoveAssign(dst, src)

SpecRes == Init /\ [][NextRes]_vars

-----------------------------------------------------------------------------
(* device_list: the array of libusb_get_device_list and its length         *)

\* a destroyed (or not yet constructed) device_list
DeadList == [live |-> FALSE, countDevices |-> 0, deviceList |-> NULL]

\* std::out_of_range(what)
out_of_range(what) == [type |-> "std::out_of_range", what |-> what]

\* device_list(): the default member initialisers countDevices{}, deviceList{}
device_list_default == [live |-> TRUE, countDevices |-> 0, deviceList |-> NULL]

\* device_list(context): rc is what libusb_get_device_list returns and p the
\* array it stores into deviceList; when the call throws no object exists
device_list_ctor(context, p, rc) ==
    LET r == CALL_LOG_ERROR_THROW("libusb_get_device_list", context, 0, rc)
    IN  IF r.thrown # NoError
        THEN [self |-> DeadList, calls |-> r.calls, logs |-> r.logs,
              thrown |-> r.thrown, ret |-> 0]
        ELSE [self |-> [live |-> TRUE, countDevices |-> r.rc, deviceList |-> p],
              calls |-> r.calls, logs |-> r.logs, thrown |-> NoError, ret |-> 0]

\* mutant: the destructor frees the array and leaves the devices referenced
device_list_dtor_keeprefs(self) ==
    [self |-> DeadList,
     calls |-> IF self.deviceList # NULL
               THEN <<Call("libusb_free_device_list", self.deviceList, 0, 0)>>
               ELSE <<>>,
     logs |-> <<>>, thrown |-> NoError, ret |-> 0]

\* ~device_list: libusb_free_device_list(deviceList, 1) unless deviceList is null
device_list_dtor(self) ==
    [self |-> DeadList,
     calls |-> IF self.deviceList # NULL
               THEN <<Call("libusb_free_device_list", self.deviceList, 1, 0)>>
               ELSE <<>>,
     logs |-> <<>>, thrown |-> NoError, ret |-> 0]

\* device_list(device_list&& other): both members are exchanged out of other
device_list_move_ctor(other) ==
    LET c == WRAP_EXCHANGE(other.countDevices, 0)
        d == WRAP_EXCHANGE(other.deviceList, NULL)
    IN  [self  |-> [live |-> TRUE, countDevices |-> c.ret, deviceList |-> d.ret],
         other |-> [other EXCEPT !.countDevices = c.val, !.deviceList = d.val]]

\* device_list::operator=(device_list&& other); same tells this == &other.  The
\* members are overwritten, the array this owned before is not freed
device_list_move_assign(self, other, same) ==
    IF same THEN [self |-> self, other |-> other]
    ELSE LET c == WRAP_EXCHANGE(other.countDevices, 0)
             d == WRAP_EXCHANGE(other.deviceList, NULL)
         IN  [self  |-> [self EXCEPT !.countDevices = c.ret, !.deviceList = d.ret],
              other |-> [other EXCEPT !.countDevices = c.val, !.deviceList = d.val]]

\* device_list::size()
device_list_size(self) == self.countDevices

\* device_list::empty()
device_list_empty(self) == self.countDevices = 0

\* mutant: at() lets the index one past the end through
device_list_at_offbyone(self, index, devs) ==
    IF index > device_list_size(self)
    THEN [thrown |-> out_of_range("device_list::at"), ret |-> 0]
    ELSE [thrown |-> NoError, ret |-> IF index < Len(devs) THEN devs[index + 1] ELSE NULL]

\* device_list::at(index): devs is the array deviceList points to, *(begin() + index)
\* its entry number index
device_list_at(self, index, devs) ==
    IF index >= device_list_size(self)
    THEN [thrown |-> out_of_range("device_list::at"), ret |-> 0]
    ELSE [thrown |-> NoError, ret |-> devs[index + 1]]

\* effect of one returned native call on the device arrays
ListStep(nat, c) ==
    IF c.returned /\ c.fn = "libusb_free_device_list" /\ c.h \in Arrays
    THEN [nat EXCEPT ![c.h].st = "freed", ![c.h].frees = @ + 1]
    ELSE nat

RECURSIVE ApplyList(_, _)
ApplyList(nat, cs) ==
    IF cs = <<>> THEN nat ELSE ApplyList(ListStep(nat, Head(cs)), Tail(cs))

\* libusb_free_device_list(list, unref_devices): with unref_devices = 1 every
\* device of the array is unreferenced once
ListRefStep(cnt, nat, c) ==
    IF c.returned /\ c.fn = "libusb_free_device_list" /\ c.h \in Arrays /\ c.a = 1
    THEN [d \in Devices |-> IF Contains(nat[c.h].devs, d) THEN cnt[d] - 1 ELSE cnt[d]]
    ELSE cnt

RECURSIVE ApplyListRef(_, _, _)
ApplyListRef(cnt, nat, cs) ==
    IF cs = <<>> THEN cnt
    ELSE ApplyListRef(ListRefStep(cnt, nat, Head(cs)), ListStep(nat, Head(cs)), Tail(cs))

\* the array libusb_get_device_list stores on success: the lowest fresh one
FreshArrays ==
    {a \in Arrays : natList[a].st = "free"
                    /\ \A b \in Arrays : b < a => natList[b].st # "free"}

\* the array of an enumeration that found k devices, each referenced once more
Enumerated(k) == [st |-> "live", devs |-> [i \in 1..k |-> i], frees |-> 0]

NewListSlot(o) == ~dl[o].live /\ \A g \in ListObjs : g < o => dl[g].live

\* the entries of the array a device_list points to
ArrayOf(self) == IF self.deviceList = NULL THEN <<>> ELSE natList[self.deviceList].devs

\* what an operation on device lists leaves behind
ListDone(op, newdl, newNat, newCnt, r) ==
    /\ Tick
    /\ dl' = newdl
    /\ natList' = ApplyList(newNat, r.calls)
    /\ refcnt' = ApplyListRef(newCnt, newNat, r.calls)
    /\ calls' = r.calls
    /\ logs' = r.logs
    /\ raised' = r.thrown
    /\ ret' = r.ret
    /\ last' = op
    /\ UNCHANGED <<ud, heldRefs, ChanVars, ResVars, crashed>>

\* device_list o(context)
DlConstruct(o) ==
    /\ ~crashed
    /\ NewListSlot(o)
    /\ \E rc \in (0..NumDevices) \cup ErrCodes, p \in Arrays \cup {NULL} :
         /\ IF rc >= 0 THEN p \in FreshArrays ELSE p = NULL
         /\ LET r == device_list_ctor(0, p, rc)
            IN  ListDone(Op("dl_ctor", o, rc, 0), [dl EXCEPT ![o] = r.self],
                         IF rc >= 0 THEN [natList EXCEPT ![p] = Enumerated(rc)]
                         ELSE natList,
                         IF rc >= 0
                         THEN [d \in Devices |-> IF d <= rc THEN refcnt[d] + 1 ELSE refcnt[d]]
                         ELSE refcnt,
                         r)

\* device_list o
DlDefault(o) ==
    /\ ~crashed
    /\ NewListSlot(o)
    /\ ListDone(Op("dl_default", o, 0, 0), [dl EXCEPT ![o] = device_list_default],
                natList, refcnt, Silent(0))

\* o goes out of scope
DlDestroy(o) ==
    /\ ~crashed
    /\ dl[o].live
    /\ LET r == device_list_dtor(dl[o])
       IN  ListDone(Op("dl_dtor", o, 0, 0), [dl EXCEPT ![o] = r.self], natList, refcnt, r)

\* device_list dst(std::move(src))
DlMoveConstruct(dst, src) ==
    /\ ~crashed
    /\ NewListSlot(dst)
    /\ dl[src].live
    /\ LET r == device_list_move_ctor(dl[src])
       IN  ListDone(Op("dl_move_ctor", dst, 0, src),
                    [dl EXCEPT ![dst] = r.self, ![src] = r.other],
                    natList, refcnt, Silent(0))

\* dst = std::move(src)
DlMoveAssign(dst, src) ==
    /\ ~crashed
    /\ dl[dst].live
    /\ dl[src].live
    /\ LET r == device_list_move_assign(dl[dst], dl[src], dst = src)
       IN  ListDone(Op("dl_move_assign", dst, 0, src),
                    IF dst = src THEN [dl EXCEPT ![dst] = r.self]
                    ELSE [dl EXCEPT ![dst] = r.self, ![src] = r.other],
                    natList, refcnt, Silent(0))

\* o.size()
DlSize(o) ==
    /\ ~crashed
    /\ dl[o].live
    /\ ListDone(Op("dl_size", o, 0, 0), dl, natList, refcnt, Silent(device_list_size(dl[o])))

\* o.empty()
DlEmpty(o) ==
    /\ ~crashed
    /\ dl[o].live
    /\ ListDone(Op("dl_empty", o, 0, 0), dl, natList, refcnt, Silent(device_list_empty(dl[o])))

\* o.at(index)
DlAt(o, index) ==
    /\ ~crashed
    /\ dl[o].live
    /\ LET r == device_list_at(dl[o], index, ArrayOf(dl[o]))
       IN  ListDone(Op("dl_at", o, index, 0), dl, natList, refcnt,
                    [Silent(r.ret) EXCEPT !.thrown = r.thrown])

\* construction, moves and destruction of device lists
NextListOwn ==
    \/ \E o \in ListObjs : DlConstruct(o)
    \/ \E o \in ListObjs : DlDefault(o)
    \/ \E o \in ListObjs : DlDestroy(o)
    \/ \E dst, src \in ListObjs : DlMoveConstruct(dst, src)
    \/ \E dst, src \in ListObjs : DlMoveAssign(dst, src)

\* device lists, and usb_device objects wrapped from their entries
NextList ==
    \/ NextListOwn
    \/ \E o \in DevObjs, p \in Devices \cup {NULL} : UdConstruct(o, p)
    \/ \E o \in DevObjs : UdDestroy(o)

SpecList == Init /\ [][NextList]_vars

\* device lists and their container interface
NextListQuery ==
    \/ NextListOwn
    \/ \E o \in ListObjs : DlSize(o)
    \/ \E o \in ListObjs : DlEmpty(o)
    \/ \E o \in ListObjs, index \in 0..NumDevices : DlAt(o, index)

SpecListQuery == Init /\ [][NextListQuery]_vars

-----------------------------------------------------------------------------
(* Descriptor queries of usb_device                                        *)

\* libusb_device_descriptor descriptor{}: value-initialised, every field zero
ZeroDescriptor == [bLength |-> 0, bNumConfigurations |-> 0]

\* what libusb_get_device_descriptor may write on success
DeviceDescriptors == {[bLength |-> 18, bNumConfigurations |-> n] : n \in 1..2}

\* usb_device::get_config_descriptor(config_index): config_descriptor descriptor;
\* libusb_get_config_descriptor(get(), config_index, out_param(descriptor)); rc
\* and p are what the native call returns and stores.  When the call throws, the
\* local descriptor is destroyed during unwinding
usb_device_get_config_descriptor(self, p, rc) ==
    LET r == CALL_LOG_ERROR_THROW("libusb_get_config_descriptor", self.ptr, 0, rc)
        b == base_reset("libusb_free_config_descriptor", NULL, p)
    IN  IF r.thrown # NoError
        THEN [descriptor |-> DeadRes,
              calls |-> r.calls \o b.calls
                        \o base_dtor("libusb_free_config_descriptor", b.ptr),
              logs |-> r.logs, thrown |-> r.thrown, ret |-> 0]
        ELSE [descriptor |-> [live |-> TRUE, kind |-> "config_descriptor", ptr |-> b.ptr],
              calls |-> r.calls \o b.calls, logs |-> r.logs, thrown |-> NoError, ret |-> 0]

\* usb_device::get_device_descriptor<Loglevel, Throw>(): descriptor{}, then
\* call_log_throw<Loglevel, Throw>(libusb_get_device_descriptor, get(), &descriptor)
\* whose result is dropped, then return descriptor; rc is what the native call
\* returns and filled what it writes when it succeeds
usb_device_get_device_descriptor(self, Loglevel, Throw, rc, filled) ==
    LET r == call_log_throw(Loglevel, Throw, "libusb_get_device_descriptor", self.ptr, 0, rc)
        descriptor == IF rc >= 0 THEN filled ELSE ZeroDescriptor
    IN  IF r.thrown # NoError
        THEN [calls |-> r.calls, logs |-> r.logs, thrown |-> r.thrown, ret |-> 0]
        ELSE [calls |-> r.calls, logs |-> r.logs, thrown |-> NoError, ret |-> descriptor]

\* config_descriptor u = o.get_config_descriptor(index) on a usb_device that owns
\* an identity
UdGetConfigDescriptor(o, u) ==
    /\ ~crashed
    /\ ud[o].live
    /\ ud[o].ptr # NULL
    /\ NewResSlot(u)
    /\ \E rc \in {0} \cup ErrCodes, p \in Resources \cup {NULL} :
         /\ IF rc = 0 THEN p \in FreshRes ELSE p = NULL
         /\ LET r == usb_device_get_config_descriptor(ud[o], p, rc)
            IN  ResDone(Op("get_config_descriptor", o, rc, u),
                        [up EXCEPT ![u] = r.descriptor],
                        IF rc = 0
                        THEN [natRes EXCEPT ![p] = [st |-> "live",
                                                    kind |-> "config_descriptor",
                                                    disposes |-> 0]]
                        ELSE natRes,
                        resHas, r)

\* d = o.get_device_descriptor<Loglevel, Throw>() on a usb_device that owns an
\* identity
UdGetDeviceDescriptor(o, Loglevel, Throw) ==
    /\ ~crashed
    /\ Tick
    /\ ud[o].live
    /\ ud[o].ptr # NULL
    /\ \E rc \in {0} \cup ErrCodes, filled \in DeviceDescriptors :
         LET r == usb_device_get_device_descriptor(ud[o], Loglevel, Throw, rc, filled)
         IN  /\ calls' = r.calls
             /\ logs' = r.logs
             /\ raised' = r.thrown
             /\ ret' = r.ret
             /\ last' = Op("get_device_descriptor", o, rc, Throw)
    /\ UNCHANGED <<ChanVars, DevVars, ListVars, ResVars, crashed>>

\* usb devices, their descriptor queries and the descriptors they return
NextDesc ==
    \/ \E o \in DevObjs, p \in Devices \cup {NULL} : UdConstruct(o, p)
    \/ \E o \in DevObjs : UdDestroy(o)
    \/ \E o \in DevObjs, u \in ResObjs : UdGetConfigDescriptor(o, u)
    \/ \E o \in DevObjs, Loglevel \in LogLevels, Throw \in BOOLEAN :
          UdGetDeviceDescriptor(o, Loglevel, Throw)
    \/ \E u \in ResObjs : UpDestroy(u)

SpecDesc == Init /\ [][NextDesc]_vars

-----------------------------------------------------------------------------
(* Checked invocation on its own                                           *)

\* results a native function may return
NativeResults == {-12, -5, -3, -1} \cup (0..MaxRc)

\* call_log_throw<Loglevel, Throw>(..., func, args...) with func returning rc
Invoke(Loglevel, Throw, rc) ==
    /\ ~crashed
    /\ Tick
    /\ LET r == call_log_throw(Loglevel, Throw, "func", 0, 0, rc)
       IN  /\ calls' = r.calls
           /\ logs' = r.logs
           /\ raised' = r.thrown
           /\ ret' = IF r.thrown # NoError THEN 0 ELSE r.rc
    /\ last' = Op("call_log_throw", Loglevel, rc, Throw)
    /\ UNCHANGED <<ChanVars, DevVars, ListVars, ResVars, crashed>>

NextInvoke ==
    \E Loglevel \in LogLevels, Throw \in BOOLEAN, rc \in NativeResults :
        Invoke(Loglevel, Throw, rc)

SpecInvoke == Init /\ [][NextInvoke]_vars

-----------------------------------------------------------------------------
(* The whole layer.  The resource families share no state except through   *)
(* open(), the entries of a device list and the descriptor queries, so a   *)
(* run works with one family at a time: a family is used only while the    *)
(* others hold nothing.                                                    *)

\* no plain resource was ever created and no plain object is alive
ResIdle ==
    /\ \A r \in Resources : natRes[r].st = "free"
    /\ \A o \in ResObjs : ~up[o].live

\* no usb_device object is alive, no reference is held, no channel came from open()
DevIdle ==
    /\ \A o \in DevObjs : ~ud[o].live
    /\ \A d \in Devices : heldRefs[d] = 0
    /\ \A c \in Channels : natChan[c].dev = NULL

\* every channel and every live device_handle came from open()
OpenedOnly ==
    /\ callerHas = {}
    /\ \A c \in Channels : natChan[c].st = "free" \/ natChan[c].dev # NULL
    /\ \A h \in HandleObjs :
         dh[h].live => dh[h].ptr # NULL /\ natChan[dh[h].ptr].dev # NULL

\* no device_handle object is alive and no channel was ever opened
HandleIdle ==
    /\ \A h \in HandleObjs : ~dh[h].live
    /\ \A c \in Channels : natChan[c].st = "free"

\* no device_list object is alive and no enumeration ever succeeded
ListIdle ==
    /\ \A o \in ListObjs : ~dl[o].live
    /\ \A a \in Arrays : natList[a].st = "free"

\* the caller holds no device reference from release()
NoHeld == \A d \in Devices : heldRefs[d] = 0

\* the last operation was a descriptor query
AfterQuery == last.op \in {"get_config_descriptor", "get_device_descriptor"}

\* descriptor queries follow the construction of a usb_device or one another
QueryTurn == last.op \in {"none", "ud_ctor", "ud_dtor", "up_dtor"} \/ AfterQuery

Next ==
    \/ ResIdle /\ DevIdle /\ ListIdle /\ NextHandle
    \/ ResIdle /\ OpenedOnly /\ ListIdle /\ ~AfterQuery /\ NextDevice
    \/ DevIdle /\ HandleIdle /\ ListIdle /\ NextRes
    \/ ResIdle /\ DevIdle /\ HandleIdle /\ ListIdle /\ NextInvoke
    \/ ResIdle /\ HandleIdle /\ NoHeld /\ (DevIdle \/ ~ListIdle) /\ NextList
    \/ ResIdle /\ HandleIdle /\ DevIdle /\ NextListQuery
    \/ HandleIdle /\ ListIdle /\ NoHeld /\ QueryTurn /\ NextDesc

Spec == Init /\ [][Next]_vars

-----------------------------------------------------------------------------
(* Properties of device_handle                                             *)

Disposers == {"libusb_close", "libusb_unref_device", "libusb_exit",
              "libusb_free_config_descriptor"}

NativeClaimed(h) ==
    IF dh[h].ptr = NULL THEN {} ELSE natChan[dh[h].ptr].claimed

\* C2: in every reachable state the claimed set recorded in a live device_handle
\* is a subset of the interfaces claimed at the native layer on the channel the
\* handle owns.
C2_ClaimedSubsetNative ==
    \A h \in HandleObjs :
        dh[h].live => Range(dh[h].claimedInterfaces) \subseteq NativeClaimed(h)

\* C5: claim_interface(n) with n already in the claimed set issues no native
\* call, raises nothing and leaves the handle unchanged; a claim_interface(n)
\* that succeeds leaves n recorded, at most one native claim behind it; the
\* claimed set never holds an interface twice.
C5_ClaimIdempotent ==
    /\ [](\A h \in HandleObjs : NoDup(dh[h].claimedInterfaces))
    /\ [][ last'.op = "claim_interface" =>
             /\ Contains(dh[last'.obj].claimedInterfaces, last'.arg) =>
                   /\ calls' = <<>>
                   /\ raised' = NoError
                   /\ dh' = dh
                   /\ natChan' = natChan
             /\ raised' = NoError =>
                   /\ Contains(dh'[last'.obj].claimedInterfaces, last'.arg)
                   /\ Len(calls') <= 1 ]_vars

\* C5 witness: a second claim_interface(n) found n recorded and called nothing
C5_Witness ==
    /\ last.op = "claim_interface"
    /\ calls = <<>>
    /\ raised = NoError
    /\ Contains(dh[last.obj].claimedInterfaces, last.arg)
    /\ last.arg \in NativeClaimed(last.obj)

\* C6: when the native call inside claim_interface(n) or release_interface(n)
\* returns a negative code, the operation raises usb_error carrying that code
\* and the claimed set is what it was before the call.
C6_FailureKeepsClaimedSet ==
    [][ (/\ last'.op \in {"claim_interface", "release_interface"}
         /\ calls' # <<>>
         /\ calls'[1].returned
         /\ calls'[1].rc < 0) =>
          /\ raised' = usb_error(calls'[1].rc)
          /\ raised'.code < 0
          /\ dh'[last'.obj].claimedInterfaces = dh[last'.obj].claimedInterfaces ]_vars

\* C6 witness: a release_interface(n) failed natively and n is still recorded
C6_Witness ==
    /\ last.op = "release_interface"
    /\ raised # NoError
    /\ raised.code \in ErrCodes
    /\ Contains(dh[last.obj].claimedInterfaces, last.arg)

\* C10: device_handle release() issues no native call, returns the raw channel
\* and leaves the handle with no channel and an empty claimed set; the
\* destruction of that handle right after issues no native call.
C10_ReleaseIsSilent ==
    [][ /\ last'.op = "release" =>
             /\ calls' = <<>>
             /\ raised' = NoError
             /\ ret' = dh[last'.obj].ptr
             /\ dh'[last'.obj].ptr = NULL
             /\ dh'[last'.obj].claimedInterfaces = <<>>
             /\ natChan' = natChan
        /\ (last.op = "release" /\ last'.op = "dtor" /\ last'.obj = last.obj) =>
             /\ calls' = <<>>
             /\ ~crashed' ]_vars

\* C10 witness: release() returned an open channel on which interfaces are
\* still claimed natively
C10_Witness ==
    /\ last.op = "release"
    /\ ret # NULL
    /\ natChan[ret].st = "open"
    /\ natChan[ret].claimed # {}
    /\ dh[last.obj].ptr = NULL
    /\ dh[last.obj].claimedInterfaces = <<>>

-----------------------------------------------------------------------------
(* Properties of ownership                                                 *)

ChanOwners(c) == {h \in HandleObjs : dh[h].live /\ dh[h].ptr = c}
ResOwners(r)  == {o \in ResObjs : up[o].live /\ up[o].ptr = r}
DevOwners(d)  == {o \in DevObjs : ud[o].live /\ ud[o].ptr = d}

\* channels libusb_open opened on d and libusb_close has not closed yet
OpenOn(d) == {c \in Channels : natChan[c].st = "open" /\ natChan[c].dev = d}

\* the disposer is never called for an empty handle
NoNullDispose ==
    \A i \in 1..Len(calls) : calls[i].fn \in Disposers => calls[i].h # NULL

\* a channel is closed exactly once, when the handle that owned it lets go of it
\* other than by release(); while owned (or in the caller's hands) it is open
ChanDisposedOnce ==
    \A c \in Channels :
        /\ natChan[c].closes <= 1
        /\ Cardinality(ChanOwners(c)) <= 1
        /\ (ChanOwners(c) # {} \/ c \in callerHas) =>
              natChan[c].st = "open" /\ natChan[c].closes = 0
        /\ ~(ChanOwners(c) # {} /\ c \in callerHas)
        /\ (natChan[c].st # "free" /\ ChanOwners(c) = {} /\ c \notin callerHas) =>
              natChan[c].st = "closed" /\ natChan[c].closes = 1

\* the same for a context or a config descriptor
ResDisposedOnce ==
    \A r \in Resources :
        /\ natRes[r].disposes <= 1
        /\ Cardinality(ResOwners(r)) <= 1
        /\ (ResOwners(r) # {} \/ r \in resHas) =>
              natRes[r].st = "live" /\ natRes[r].disposes = 0
        /\ ~(ResOwners(r) # {} /\ r \in resHas)
        /\ (natRes[r].st # "free" /\ ResOwners(r) = {} /\ r \notin resHas) =>
              natRes[r].st = "disposed" /\ natRes[r].disposes = 1

\* device arrays that are not freed and hold d, each with its own reference
ListsHolding(d) == {a \in Arrays : natList[a].st = "live" /\ Contains(natList[a].devs, d)}

\* every reference a usb_device took is dropped exactly once: the count is the
\* base count plus one for every owner, every reference handed out by release(),
\* every open channel and every device array that holds the device
DevRefsBalanced ==
    \A d \in Devices :
        refcnt[d] = BaseRef + Cardinality(DevOwners(d)) + heldRefs[d]
                    + Cardinality(OpenOn(d)) + Cardinality(ListsHolding(d))

\* C3 as stated: for all four scoped resource types every owned raw handle that
\* was not released is disposed exactly once, the disposer is never called for
\* an empty handle, and at most one live object owns a raw handle, usb_device
\* included.
C3_SingleOwnerEveryType ==
    /\ NoNullDispose
    /\ ChanDisposedOnce
    /\ ResDisposedOnce
    /\ DevRefsBalanced
    /\ \A d \in Devices : Cardinality(DevOwners(d)) <= 1

\* C3 as amended: the same, with single ownership for usb_context,
\* config_descriptor and the device_handle channel only; a device identity may
\* be owned by several usb_device objects, each of which drops exactly the one
\* reference it took.
C3_DisposedExactlyOnce ==
    /\ NoNullDispose
    /\ ChanDisposedOnce
    /\ ResDisposedOnce
    /\ DevRefsBalanced

\* C3 witness: a raw handle of each single-owner kind was disposed by its owner's
\* reset or destruction, or two usb_device objects own one identity
C3_Witness ==
    \/ /\ last.op \in {"dtor", "reset", "move_assign"}
       /\ \E i \in 1..Len(calls) :
             calls[i].fn = "libusb_close" /\ natChan[calls[i].h].closes = 1
    \/ /\ last.op \in {"up_dtor", "up_reset", "up_move_assign"}
       /\ calls # <<>>
       /\ natRes[calls[1].h].disposes = 1
    \/ \E d \in Devices : Cardinality(DevOwners(d)) = 2 /\ refcnt[d] = BaseRef + 2

C8_OpenFailureRaises ==
    [][ (last'.op = "open" /\ last'.arg < 0) =>
          /\ raised'.code = last'.arg
          /\ raised'.what # ""
          /\ dh' = dh
          /\ ~dh'[last'.src].live
          /\ \A i \in 1..Len(calls') : calls'[i].fn # "libusb_close"
          /\ ud' = ud
          /\ refcnt' = refcnt
          /\ natChan' = natChan ]_vars

\* C8 witness: open() failed with -3 and raised it
C8_Witness ==
    /\ last.op = "open"
    /\ last.arg = -3
    /\ raised.code = -3
    /\ raised.what # ""
    /\ ~dh[last.src].live
    /\ ud[last.obj].ptr # NULL

\* C9: release() of any scoped resource returns the owned raw handle, leaves the
\* object empty and calls no disposer; destroying or resetting an empty object
\* calls no disposer; no raw handle is ever disposed twice.
C9_ReleaseThenManualDispose ==
    /\ [](/\ \A c \in Channels : natChan[c].closes <= 1
          /\ \A r \in Resources : natRes[r].disposes <= 1
          /\ \A d \in Devices : refcnt[d] >= BaseRef)
    /\ [][ /\ last'.op = "release" =>
                 /\ ret' = dh[last'.obj].ptr /\ dh'[last'.obj].ptr = NULL
                 /\ calls' = <<>> /\ natChan' = natChan
           /\ last'.op = "up_release" =>
                 /\ ret' = up[last'.obj].ptr /\ up'[last'.obj].ptr = NULL
                 /\ calls' = <<>> /\ natRes' = natRes
           /\ last'.op = "ud_release" =>
                 /\ ret' = ud[last'.obj].ptr /\ ud'[last'.obj].ptr = NULL
                 /\ calls' = <<>> /\ refcnt' = refcnt
           /\ (last'.op \in {"dtor", "reset"} /\ dh[last'.obj].ptr = NULL) =>
                 \A i \in 1..Len(calls') : calls'[i].fn \notin Disposers
           /\ (last'.op \in {"up_dtor", "up_reset"} /\ up[last'.obj].ptr = NULL) =>
                 \A i \in 1..Len(calls') : calls'[i].fn \notin Disposers
           /\ (last'.op \in {"ud_dtor", "ud_reset"} /\ ud[last'.obj].ptr = NULL) =>
                 \A i \in 1..Len(calls') : calls'[i].fn \notin Disposers ]_vars

\* C9 witness: release() handed a live raw handle to the caller and left the
\* object empty
C9_Witness ==
    \/ /\ last.op = "up_release" /\ ret # NULL
       /\ ret \in resHas /\ natRes[ret].st = "live" /\ up[last.obj].ptr = NULL
    \/ /\ last.op = "release" /\ ret # NULL
       /\ ret \in callerHas /\ natChan[ret].st = "open" /\ dh[last.obj].ptr = NULL

-----------------------------------------------------------------------------
(* Properties of checked invocation                                        *)

\* C7: call_log_throw calls the native function exactly once; a result r >= 0 is
\* returned with no log entry and no exception; a result r < 0 writes exactly
\* one log entry at the given severity and then raises usb_error carrying r when
\* Throw is true, or returns r when Throw is false.
C7_CheckedInvocation ==
    last.op = "call_log_throw" =>
        /\ Len(calls) = 1
        /\ calls[1].rc = last.arg
        /\ last.arg >= 0 => logs = <<>> /\ raised = NoError /\ ret = last.arg
        /\ last.arg < 0 =>
              /\ Len(logs) = 1
              /\ logs[1].lvl = last.obj
              /\ last.src => raised.code = last.arg /\ raised = usb_error(last.arg)
              /\ ~last.src => raised = NoError /\ ret = last.arg

\* C7 witness: a negative result was logged once and returned without a throw
C7_Witness ==
    /\ last.op = "call_log_throw"
    /\ last.arg < 0
    /\ ~last.src
    /\ last.obj = "MVLOG_WARN"
    /\ Len(logs) = 1
    /\ raised = NoError
    /\ ret = last.arg

-----------------------------------------------------------------------------
(* Properties of device_list                                               *)

\* C11: destroying a device_list issues exactly one libusb_free_device_list call
\* that lowers the count of every device of its array by exactly one and leaves
\* every usb_device untouched; while a usb_device wrapped from an entry is alive
\* the count of its device stays at least one above the base count, whether the
\* list or the usb_device is destroyed first.
C11_WrappedDeviceOutlivesList ==
    /\ [](\A d \in Devices :
             DevOwners(d) # {} => refcnt[d] >= BaseRef + Cardinality(DevOwners(d)))
    /\ [][ /\ (last'.op = "dl_dtor" /\ dl[last'.obj].deviceList # NULL) =>
                 LET a == dl[last'.obj].deviceList
                 IN  /\ calls' = <<Call("libusb_free_device_list", a, 1, 0)>>
                     /\ \A d \in Devices :
                           refcnt'[d] = IF Contains(natList[a].devs, d)
                                        THEN refcnt[d] - 1 ELSE refcnt[d]
                     /\ ud' = ud
           /\ (last'.op = "ud_dtor" /\ ud[last'.obj].ptr # NULL) =>
                 /\ refcnt'[ud[last'.obj].ptr] = refcnt[ud[last'.obj].ptr] - 1
                 /\ refcnt'[ud[last'.obj].ptr] >= BaseRef
                 /\ natList' = natList ]_vars

\* C11 witness: the list was destroyed first, its array is freed, and the
\* usb_device wrapped from its entry still holds its own reference
C11_Witness ==
    /\ last.op = "dl_dtor"
    /\ calls # <<>>
    /\ natList[calls[1].h].st = "freed"
    /\ \E o \in DevObjs :
          /\ ud[o].live
          /\ ud[o].ptr # NULL
          /\ Contains(natList[calls[1].h].devs, ud[o].ptr)
          /\ ListsHolding(ud[o].ptr) = {}
          /\ refcnt[ud[o].ptr] = BaseRef + 1

\* C12: a live device_list records the length of the array it points to (0 for
\* none); size() returns it, empty() tells whether it is 0, at(i) returns entry
\* i below it and raises out_of_range from it on; a failed enumeration raises
\* and leaves no list object and no array behind.
C12_SizeEmptyAt ==
    /\ [](\A o \in ListObjs : dl[o].live => dl[o].countDevices = Len(ArrayOf(dl[o])))
    /\ [][ /\ last'.op = "dl_size" =>
                 ret' = Len(ArrayOf(dl[last'.obj])) /\ raised' = NoError
           /\ last'.op = "dl_empty" =>
                 ret' = (Len(ArrayOf(dl[last'.obj])) = 0) /\ raised' = NoError
           /\ last'.op = "dl_at" =>
                 IF last'.arg < Len(ArrayOf(dl[last'.obj]))
                 THEN raised' = NoError /\ ret' = ArrayOf(dl[last'.obj])[last'.arg + 1]
                 ELSE raised' = out_of_range("device_list::at")
           /\ last'.op \in {"dl_size", "dl_empty", "dl_at"} =>
                 dl' = dl /\ natList' = natList /\ calls' = <<>>
           /\ (last'.op = "dl_ctor" /\ last'.arg < 0) =>
                 /\ raised' = usb_error(last'.arg)
                 /\ dl' = dl
                 /\ natList' = natList
                 /\ refcnt' = refcnt
           /\ (last'.op \in {"dl_move_ctor", "dl_move_assign"} /\ last'.obj # last'.src) =>
                 /\ dl'[last'.src].countDevices = 0
                 /\ dl'[last'.obj].countDevices = dl[last'.src].countDevices ]_vars

\* C12 witness: at(i) returned an entry of a list that is not empty
C12_Witness ==
    /\ last.op = "dl_at"
    /\ raised = NoError
    /\ dl[last.obj].countDevices >= 1
    /\ last.arg < dl[last.obj].countDevices
    /\ ret = natList[dl[last.obj].deviceList].devs[last.arg + 1]

\* C19: no device array is freed twice, and once every device_list object is
\* destroyed every array an enumeration produced has been freed.
C19_EveryArrayFreedOnce ==
    /\ \A a \in Arrays : natList[a].frees <= 1
    /\ (\A o \in ListObjs : ~dl[o].live) =>
          \A a \in Arrays : natList[a].st # "live"

-----------------------------------------------------------------------------
(* Further properties of device_handle                                     *)

\* s without every entry equal to n, the order of the rest kept
Without(s, n) == SelectSeq(s, LAMBDA x : x # n)

\* C13: release_interface(n) with n not in the claimed set issues no native
\* call, raises nothing and leaves the handle and the channel as they were; with
\* n claimed and the native release succeeding, exactly n leaves the set, the
\* rest keeps its order and the channel stays owned.
C13_ReleaseInterfaceFrame ==
    [][ (last'.op = "release_interface" /\ ~crashed') =>
          LET s == dh[last'.obj].claimedInterfaces
              n == last'.arg
          IN  /\ ~Contains(s, n) =>
                    /\ calls' = <<>>
                    /\ raised' = NoError
                    /\ dh' = dh
                    /\ natChan' = natChan
              /\ (Contains(s, n) /\ raised' = NoError) =>
                    /\ calls' = <<Call("libusb_release_interface", dh[last'.obj].ptr, n, 0)>>
                    /\ dh'[last'.obj].claimedInterfaces = Without(s, n)
                    /\ dh'[last'.obj].ptr = dh[last'.obj].ptr ]_vars

\* C13 witness: release_interface(n) released n natively and another interface
\* is still recorded and still claimed
C13_Witness ==
    /\ last.op = "release_interface"
    /\ raised = NoError
    /\ Len(calls) = 1
    /\ dh[last.obj].claimedInterfaces # <<>>
    /\ ~Contains(dh[last.obj].claimedInterfaces, last.arg)
    /\ Range(dh[last.obj].claimedInterfaces) \subseteq NativeClaimed(last.obj)

\* C15: after device_handle reset(ptr) returns, for empty or non-empty ptr, the
\* claimed set is empty; a claim_interface(n) that follows on the same handle
\* issues the native claim call.
C15_ResetClearsClaimedSet ==
    [][ /\ (last'.op = "reset" /\ ~crashed') =>
              dh'[last'.obj].claimedInterfaces = <<>>
        /\ (last.op = "reset" /\ last'.op = "claim_interface" /\ last'.obj = last.obj) =>
              /\ calls' # <<>>
              /\ calls'[1].fn = "libusb_claim_interface" ]_vars

\* C18: before every libusb_close this layer issues on a channel, it has issued
\* libusb_release_interface on that channel for every interface in the claimed
\* set of the handle that owned it; after dst = std::move(src) dst has the
\* channel and the claimed set of src, and src has neither.
C18_ReleaseBeforeClose ==
    [][ /\ \A j \in 1..Len(calls') :
              calls'[j].fn = "libusb_close" =>
                 \A h \in HandleObjs :
                    (dh[h].live /\ dh[h].ptr = calls'[j].h) =>
                       \A n \in Range(dh[h].claimedInterfaces) :
                          \E i \in 1..(j - 1) :
                             /\ calls'[i].fn = "libusb_release_interface"
                             /\ calls'[i].h = calls'[j].h
                             /\ calls'[i].a = n
        /\ (last'.op = "move_assign" /\ last'.obj # last'.src) =>
              /\ dh'[last'.obj].ptr = dh[last'.src].ptr
              /\ dh'[last'.obj].claimedInterfaces = dh[last'.src].claimedInterfaces
              /\ dh'[last'.src].ptr = NULL
              /\ dh'[last'.src].claimedInterfaces = <<>> ]_vars

-----------------------------------------------------------------------------
(* Properties of usb_device::reset                                         *)

\* the reference counts after the first i native calls of an operation
CountAfter(cnt, cs, i) == ApplyRef(cnt, SubSeq(cs, 1, i))

\* C16: usb_device reset(p) with p not null calls libusb_ref_device(p) before
\* any libusb_unref_device; when p is the identity already owned, its count is
\* never below its value before the call after any of the native calls and is
\* that value again when reset returns.
C16_RefBeforeUnref ==
    [][ (last'.op = "ud_reset" /\ last'.arg # NULL /\ ~crashed') =>
          LET old == ud[last'.obj].ptr
              p == last'.arg
          IN  /\ calls' # <<>>
              /\ calls'[1] = Call("libusb_ref_device", p, 0, 0)
              /\ \A i, j \in 1..Len(calls') :
                    (calls'[i].fn = "libusb_ref_device"
                     /\ calls'[j].fn = "libusb_unref_device") => i < j
              /\ old # NULL =>
                    \E j \in 2..Len(calls') : calls'[j] = Call("libusb_unref_device", old, 0, 0)
              /\ p = old =>
                    /\ \A i \in 0..Len(calls') : CountAfter(refcnt, calls', i)[p] >= refcnt[p]
                    /\ refcnt'[p] = refcnt[p]
              /\ ud'[last'.obj].ptr = p ]_vars

\* C16 witness: reset(D) on the usb_device that owns D referenced D, then
\* unreferenced it, and D is still owned
C16_Witness ==
    /\ last.op = "ud_reset"
    /\ Len(calls) = 2
    /\ calls[1].fn = "libusb_ref_device"
    /\ calls[2].fn = "libusb_unref_device"
    /\ calls[1].h = calls[2].h
    /\ ud[last.obj].ptr = calls[1].h
    /\ refcnt[calls[1].h] = BaseRef + Cardinality(DevOwners(calls[1].h))

\* C17: usb_device reset() with the null identity issues no libusb_ref_device
\* on null, unreferences the identity owned before exactly once (if there was
\* one) and leaves the usb_device empty.
C17_ResetNullTakesNoReference ==
    [][ (last'.op = "ud_reset" /\ last'.arg = NULL) =>
          LET old == ud[last'.obj].ptr
          IN  /\ ~crashed'
              /\ \A i \in 1..Len(calls') :
                    ~(calls'[i].fn = "libusb_ref_device" /\ calls'[i].h = NULL)
              /\ old # NULL => refcnt'[old] = refcnt[old] - 1
              /\ old = NULL => refcnt' = refcnt
              /\ ud'[last'.obj].ptr = NULL ]_vars

-----------------------------------------------------------------------------
(* Properties of the descriptor queries                                    *)

\* C14: get_config_descriptor and get_device_descriptor raise usb_error carrying
\* the code when the native call fails; through the non-throwing variant of
\* get_device_descriptor nothing is raised and the caller can read the failure
\* from what is returned: the value differs from every value a success returns,
\* and two calls that fail with different codes return different values.
C14_DescriptorFailureReachesCaller ==
    [][ /\ (last'.op = "get_config_descriptor" /\ last'.arg < 0) =>
              raised' = usb_error(last'.arg)
        /\ (last'.op = "get_device_descriptor" /\ last'.arg < 0 /\ last'.src) =>
              raised' = usb_error(last'.arg)
        /\ (last'.op = "get_device_descriptor" /\ last'.arg < 0 /\ ~last'.src) =>
              /\ raised' = NoError
              /\ ret' \notin DeviceDescriptors
              /\ (/\ last.op = "get_device_descriptor"
                  /\ ~last.src
                  /\ last.arg < 0
                  /\ last.arg # last'.arg) => ret' # ret ]_vars

====
